---- MODULE Spec2Model ----
(***************************************************************************)
(* SnapEvent: the review-queue state machine of src/App.tsx together with  *)
(* the per-card state of the EventForm component it renders                *)
(* (src/unnamed/part_000, third version, lines 350-592), the orchestrator  *)
(* extractEventDetails and the normalisation of the model's response text  *)
(* (src/unnamed/part_001).                                                 *)
(*                                                                         *)
(* Spec is the review session, ExtractSpec follows each extraction through *)
(* the orchestrator, NormalizeSpec applies the normalisation to every      *)
(* response text of bounded length and RelaySpec adds the relay mode       *)
(* (src/services/geminiService.ts, lines 278-415).  LinkSpec encodes       *)
(* candidates as deep links and CodecSpec applies the date codec           *)
(* (src/unnamed/part_002); RuleSpec is the recurrence controls of one      *)
(* EventForm.                                                              *)
(*                                                                         *)
(* Candidate indices are 0-based as in the source: events[i] of the source *)
(* is events[i + 1] here.  Time is counted in ticks of 500 ms, the         *)
(* granularity of the two setTimeout delays of the source (500, 1000 ms).  *)
(***************************************************************************)
EXTENDS Integers, Sequences, FiniteSets, TLC

\* ------------------------------------------------------------------ bounds
\* Captures (processImage calls) in one run; object URLs are numbered 1, 2, ...
MaxCaptures == 2
\* Longest response text, in tokens.
MaxLen == 5
\* Largest interval of the recurrence rules the forms are opened on.
MaxInterval == 1000
\* Codec functions applied in a row to one string.
MaxTrip == 3
\* Largest batch one extraction returns.
MaxEvents == 3
\* Dismiss timers pending at once (Save clicks within one delay).
MaxTimers == 1

\* --------------------------------------------------------- program constants
\* setTimeout(dismissCurrentCard, 500): one tick of 500 ms.
DismissTicks == 1
\* setTimeout(() => setIsAdded(false), 1000): two ticks of 500 ms.
AddedTicks == 2
\* visualIndex < 3: how many cards of the stack are displayed.
VisibleCards == 3

VARIABLES
    appState,       \* AppState: "IDLE" | "PROCESSING" | "REVIEW" | "ERROR"
    events,         \* EventDetails[]: the candidate array
    stackOrder,     \* number[]: the review queue of 0-based indices
    errorMessage,   \* string
    previewImage,   \* object URL of the preview, 0 for null
    liveUrls,       \* object URLs created and not yet revoked
    inflight,       \* extractions awaiting their result, by object URL
    nextId,         \* next object URL to create
    cards,          \* per index: the mounted EventForm's state
    dismissTimers,  \* pending setTimeout(dismissCurrentCard): ticks left of each
    addedTimers,    \* pending setTimeout(setIsAdded(false)): <<index, ticks left>>
    opened,         \* the form data of the deep link the last step opened, if any
    dismissed,      \* how the last step called dismissCurrentCard, "none" if it did not
    committed,      \* history: Save was clicked on the candidate now at the front
    skipped,        \* history: an index left the queue with no commit or discard on it
    abandoned,      \* history: extractions that were in flight when resetApp ran
    useProxy,       \* USE_BACKEND_PROXY
    hasKey,         \* process.env.API_KEY is set in the client
    stage,          \* per extraction: how far its processImage call has got
    requests,       \* per extraction: transport requests issued for it
    caught,         \* the message of the error processImage caught last
    rawText,        \* response.text of the model, as a sequence of tokens
    result,         \* what extractEventDetailsDirect made of rawText
    relayed,        \* what extractEventDetailsViaProxy made of rawText
    tz,             \* Date.prototype.getTimezoneOffset() of the viewer, in minutes
    event,          \* the EventDetails given to generateGoogleCalendarUrl
    link,           \* what generateGoogleCalendarUrl made of event
    form,           \* the recurrence state of one EventForm
    engine,         \* how Date reads a string that is no date-time string
    given,          \* the string given to the date codec
    trip            \* the codec functions applied to it in turn, with their results

appVars == <<appState, events, stackOrder, errorMessage, previewImage, liveUrls,
             inflight, nextId, cards, dismissTimers, addedTimers, opened, dismissed,
             committed, skipped, abandoned>>

\* The orchestrator seen from inside: configuration and progress of each call.
pipeVars == <<useProxy, hasKey, stage, requests, caught>>

\* The normalisation of one response text.
normVars == <<rawText, result, relayed>>

\* The inputs and outputs of the functions that are checked on their own.
\* The encoding of one candidate as a deep link.
linkVars == <<tz, event, link>>

\* The recurrence controls of one form.
ruleVars == <<form>>

\* The date codec applied to one string.
codecVars == <<engine, given, trip>>

funVars == <<normVars, linkVars, ruleVars, codecVars>>

vars == <<appVars, pipeVars, funVars>>

AppStates == {"IDLE", "PROCESSING", "REVIEW", "ERROR"}

ErrorText == "Sorry, we couldn't read the event details. Please try again."

Titles == {"extracted", "edited"}

NoData == [img |-> 0, idx |-> -1, title |-> ""]

\* Candidate idx of the batch extracted from image img.
Candidate(img, idx) == [img |-> img, idx |-> idx, title |-> "extracted"]

\* The array an extraction of image img yields when it finds n events.
Batch(img, n) == [k \in 1..n |-> Candidate(img, k - 1)]

\* extractedEvents.map((_, i) => i)
Identity(n) == [k \in 1..n |-> k - 1]

Range(s) == {s[k] : k \in 1..Len(s)}

\* Array.prototype.indexOf, 0-based, -1 when absent.
IndexOf(s, x) ==
    IF x \in Range(s)
    THEN (CHOOSE k \in 1..Len(s) : s[k] = x /\ \A j \in 1..(k - 1) : s[j] # x) - 1
    ELSE -1

\* Mutant of Shift: pop() in place of shift(), the last element is dropped.
ShiftDropsLast(s) == IF s = <<>> THEN <<>> ELSE SubSeq(s, 1, Len(s) - 1)

\* newOrder.shift(): drops the first element; an empty array stays empty.
Shift(s) == IF s = <<>> THEN <<>> ELSE Tail(s)

CardIdx == 0..(MaxEvents - 1)

NoCard == [mounted |-> FALSE, formData |-> NoData, isAdded |-> FALSE]

\* ------------------------------------------------------------------ render
\* Which branch of App's render is shown.
View(a, e, s) ==
    IF a \in {"IDLE", "ERROR"} THEN "dropzone"
    ELSE IF a = "PROCESSING" THEN "processing"
    ELSE IF Len(e) = 0 THEN "blank"
    ELSE IF s = <<>> THEN "allDone"
    ELSE "cards"

\* The ImageDropzone (and its window paste listener) is mounted.
DropzoneMounted(a) == a \in {"IDLE", "ERROR"}

\* events.map in the cards stack: card i is rendered unless it is in the
\* queue at a position that is not visible.
Rendered(i, a, e, s) ==
    /\ View(a, e, s) = "cards"
    /\ i < Len(e)
    /\ LET visualIndex == IndexOf(s, i)
           isVisible == visualIndex > -1 /\ visualIndex < VisibleCards
       IN ~(~isVisible /\ visualIndex # -1)

\* pointerEvents: visualIndex === 0 ? 'auto' : 'none'
Interactive(i, a, e, s) == Rendered(i, a, e, s) /\ IndexOf(s, i) = 0

\* pointerEvents 'none' stops the pointer only: the fields, the Discard
\* button and the Save link of every other rendered card stay in the tab
\* order (the form sets no disabled, tabIndex or inert) and take the keyboard.
KeyboardOnly(i, a, e, s) == Rendered(i, a, e, s) /\ ~Interactive(i, a, e, s)

\* React reconciliation by key={originalIndex}: a card that stays rendered
\* keeps its state, a newly rendered one starts from useState(initialData).
Reconcile(old, a, e, s) ==
    [i \in CardIdx |->
        IF Rendered(i, a, e, s)
        THEN IF old[i].mounted THEN old[i]
             ELSE [mounted |-> TRUE, formData |-> e[i + 1], isAdded |-> FALSE]
        ELSE NoCard]

\* A state update on an unmounted component does nothing: its timers are dropped.
LiveAdded(timers, newCards) == {t \in timers : newCards[t[1]].mounted}

\* Mutant of AfterPreviewChange: the effect cleanup is missing.
NoRevokeOnChange(urls, old, new) == urls

\* useEffect cleanup on [previewImage]: the URL that stops being the preview
\* is revoked.
AfterPreviewChange(urls, old, new) ==
    IF old # new THEN urls \ {old} ELSE urls

TypeOK ==
    /\ appState \in AppStates
    /\ Len(events) <= MaxEvents
    /\ Len(stackOrder) <= MaxEvents
    /\ errorMessage \in {"", ErrorText}
    /\ previewImage \in 0..MaxCaptures
    /\ liveUrls \subseteq 1..MaxCaptures
    /\ inflight \subseteq 1..MaxCaptures
    /\ nextId \in 1..(MaxCaptures + 1)
    /\ DOMAIN cards = CardIdx
    /\ Len(dismissTimers) <= MaxTimers
    /\ dismissed \in {"none", "button", "key", "timer", "timerOnEmpty"}

\* No extraction has been started.
PipeInit ==
    /\ stage = [r \in 1..MaxCaptures |-> "none"]
    /\ requests = [r \in 1..MaxCaptures |-> 0]
    /\ caught = ""

\* The App component after its first render.
AppInit ==
    /\ appState = "IDLE"
    /\ events = <<>>
    /\ stackOrder = <<>>
    /\ errorMessage = ""
    /\ previewImage = 0
    /\ liveUrls = {}
    /\ inflight = {}
    /\ nextId = 1
    /\ cards = [i \in CardIdx |-> NoCard]
    /\ dismissTimers = <<>>
    /\ addedTimers = {}
    /\ opened = NoData
    /\ dismissed = "none"
    /\ committed = FALSE
    /\ skipped = FALSE
    /\ abandoned = {}

\* No response text has been received.
NormInit ==
    /\ rawText = <<>>
    /\ result = [status |-> "pending", list |-> <<>>]
    /\ relayed = [status |-> "pending", list |-> <<>>]

\* The value of a property that is absent.
Undefined == "<undefined>"

\* x || fallback
OrElse(x, fallback) == IF x \in {Undefined, ""} THEN fallback ELSE x

\* ------------------------------------------------------- dates and times
\* Milliseconds in a day, in an hour and in a minute.
DayMs == 86400000
HourMs == 3600000
MinuteMs == 60000

\* A time value of Date ranges over 100,000,000 days either side of the
\* epoch.  An instant is the day since the epoch and the millisecond of the
\* day; an invalid Date (time value NaN) is Invalid.
MaxDay == 100000000

Invalid == [valid |-> FALSE, d |-> 0, ms |-> 0]

\* The Date of day d plus ms milliseconds (any sign), NaN out of range.
TimeClip(d, ms) ==
    LET dd == d + (ms \div DayMs)
        mm == ms % DayMs
    IN IF dd < -MaxDay \/ dd > MaxDay \/ (dd = MaxDay /\ mm > 0)
       THEN Invalid
       ELSE [valid |-> TRUE, d |-> dd, ms |-> mm]

\* The strings that hold dates, by their form:
\*   "empty"     ''
\*   "junk"      a text Date cannot parse, such as 'next Tuesday'
\*   "utc"       YYYY-MM-DDTHH:mm:ss.sssZ, the output of toISOString
\*   "dateTime"  YYYY-MM-DDTHH:mm[:ss] without a zone: local time
\*   "date"      YYYY-MM-DD, a date alone: midnight UTC
\*   "stamp"     YYYYMMDDTHHmmssZ
\*   "cut"       the first 16 characters of an ISO string whose year has a
\*               sign and six digits, such as '+010000-01-01T00'
\* with the day and the millisecond of the day that the digits spell.
Empty == [form |-> "empty", d |-> 0, ms |-> 0]
Junk == [form |-> "junk", d |-> 0, ms |-> 0]

\* new Date(string) for a viewer whose getTimezoneOffset() is zone minutes.
\* A "cut" string is no date-time string: what Date makes of it is left to
\* the engine, NaN or ("lenient") the local hour that it spells.
DateParse(str, zone) ==
    IF str.form = "utc" THEN TimeClip(str.d, str.ms)
    ELSE IF str.form = "dateTime" THEN TimeClip(str.d, str.ms + zone * MinuteMs)
    ELSE IF str.form = "date" THEN TimeClip(str.d, 0)
    ELSE IF str.form = "cut" /\ engine = "lenient"
    THEN TimeClip(str.d, str.ms + zone * MinuteMs)
    ELSE Invalid

\* Date.prototype.toISOString of a valid Date.
toISOString(date) == [form |-> "utc", d |-> date.d, ms |-> date.ms]

\* .replace(/-|:|\.\d\d\d/g, "") of an ISO string: the milliseconds go.
GCalReplace(iso) == [form |-> "stamp", d |-> iso.d, ms |-> iso.ms - (iso.ms % 1000)]

formatToGCalDate(dateString, zone) ==
    IF dateString = Empty THEN Empty
    ELSE LET date == DateParse(dateString, zone)
         IN IF ~date.valid THEN Empty
            ELSE GCalReplace(toISOString(date))

\* toISOString writes the years 0000 to 9999 with four digits, the others
\* with a sign and six: the first and the last day of the four-digit years.
Year0000 == -719528
Year9999 == 2932896

\* .slice(0, 16) of an ISO string: YYYY-MM-DDTHH:mm, or a sign, six digits
\* of year, month, day and hour.
Slice16(iso) ==
    IF iso.d \in Year0000..Year9999
    THEN [form |-> "dateTime", d |-> iso.d, ms |-> iso.ms - (iso.ms % MinuteMs)]
    ELSE [form |-> "cut", d |-> iso.d, ms |-> iso.ms - (iso.ms % HourMs)]

Returned(str) == [status |-> "ok", value |-> str]
Thrown(error) == [status |-> error, value |-> Empty]

\* toInputDateTime; toISOString of an invalid Date throws a RangeError.
toInputDateTime(isoString, zone) ==
    IF isoString = Empty THEN Returned(Empty)
    ELSE LET date == DateParse(isoString, zone)
             offset == zone * MinuteMs
             shifted == TimeClip(date.d, date.ms - offset)
         IN IF ~date.valid THEN Returned(Empty)
            ELSE IF ~shifted.valid THEN Thrown("RangeError")
            ELSE Returned(Slice16(toISOString(shifted)))

fromInputDateTime(localString, zone) ==
    IF localString = Empty THEN Returned(Empty)
    ELSE LET date == DateParse(localString, zone)
         IN IF ~date.valid THEN Returned(Empty)
            ELSE Returned(toISOString(date))

\* The strings given to the codec: none, unparseable,
\* 2025-06-02T09:00:30.500Z, the local time 2025-06-02T23:30:45, the values
\* 2025-06-02T09:00 and 2025-06-02 of the inputs of the form,
\* 9999-12-31T23:59:59.999Z, +010000-01-01T00:00:00.000Z,
\* -000001-12-31T12:00:00.000Z, and the first and the last Date.
CodecInputs ==
    {Empty, Junk,
     [form |-> "utc", d |-> 20241, ms |-> 9 * HourMs + 30500],
     [form |-> "dateTime", d |-> 20241, ms |-> 23 * HourMs + 30 * MinuteMs + 45000],
     [form |-> "dateTime", d |-> 20241, ms |-> 9 * HourMs],
     [form |-> "date", d |-> 20241, ms |-> 0],
     [form |-> "utc", d |-> Year9999, ms |-> DayMs - 1],
     [form |-> "utc", d |-> Year9999 + 1, ms |-> 0],
     [form |-> "utc", d |-> Year0000 - 1, ms |-> 12 * HourMs],
     [form |-> "utc", d |-> -MaxDay, ms |-> 0],
     [form |-> "utc", d |-> MaxDay, ms |-> 0]}

\* The codec is not in use.
CodecIdle ==
    /\ engine = "strict"
    /\ given = Empty
    /\ trip = <<>>

\* ------------------------------------------------------------ link encoder
\* The parameters of the link; encoding them as a query string is one to
\* one and is left out.
BaseParams(e) ==
    [n \in {"action", "text", "details", "location"} |->
        IF n = "action" THEN "TEMPLATE"
        ELSE IF n = "text" THEN OrElse(e.title, "New Event")
        ELSE IF n = "details" THEN OrElse(e.description, "")
        ELSE OrElse(e.location, "")]

\* params.set("dates", `${start}/${end}`)
WithDates(params, start, end) ==
    [n \in DOMAIN params \cup {"dates"} |->
        IF n = "dates" THEN [start |-> start, end |-> end] ELSE params[n]]

\* generateGoogleCalendarUrl; toISOString of an invalid Date throws a
\* RangeError.
generateGoogleCalendarUrl(e, zone) ==
    LET start == formatToGCalDate(e.startDateTime, zone)
        end == formatToGCalDate(e.endDateTime, zone)
        startDate == DateParse(e.startDateTime, zone)
        endDate == TimeClip(startDate.d, startDate.ms + HourMs)
    IN IF start # Empty /\ end = Empty
       THEN IF ~endDate.valid
            THEN [status |-> "RangeError", params |-> << >>]
            ELSE [status |-> "ok",
                  params |-> WithDates(BaseParams(e), start,
                                       GCalReplace(toISOString(endDate)))]
       ELSE IF start # Empty /\ end # Empty
       THEN [status |-> "ok", params |-> WithDates(BaseParams(e), start, end)]
       ELSE [status |-> "ok", params |-> BaseParams(e)]

\* getTimezoneOffset() of the viewers: UTC+14, UTC+5:30, UTC, UTC-5, UTC-12.
Offsets == {-840, -330, 0, 300, 720}

\* The date strings of the candidates encoded: none, unparseable,
\* 2025-06-02T09:00:00.000Z, 2025-06-02T08:00:00.000Z, the local time
\* 2025-06-02T23:30:00 and +275760-09-13T00:00:00.000Z, the last Date.
LinkDates ==
    {Empty, Junk,
     [form |-> "utc", d |-> 20241, ms |-> 9 * HourMs],
     [form |-> "utc", d |-> 20241, ms |-> 8 * HourMs],
     [form |-> "dateTime", d |-> 20241, ms |-> 23 * HourMs + 30 * MinuteMs],
     [form |-> "utc", d |-> MaxDay, ms |-> 0]}

WeeklyRule == "RRULE:FREQ=WEEKLY;INTERVAL=2"

LinkInputs ==
    [title : {"", "Standup"}, location : {"", "Room 4"},
     description : {"", "Bring slides"},
     startDateTime : LinkDates, endDateTime : LinkDates,
     recurrence : {"", WeeklyRule}]

NoEvent ==
    [title |-> "", location |-> "", description |-> "", startDateTime |-> Empty,
     endDateTime |-> Empty, recurrence |-> ""]

Pending == [status |-> "pending", params |-> << >>]

\* No candidate is being encoded.
LinkIdle ==
    /\ tz = 0
    /\ event = NoEvent
    /\ link = Pending

\* ------------------------------------------------------- recurrence rules
\* A rule is the sequence of the parts that follow 'RRULE:', separated by
\* ';'.  A part is its key, and its value as a word or as decimal digits:
\* FREQ=WEEKLY is [key |-> "FREQ", word |-> "WEEKLY", digits |-> <<>>],
\* INTERVAL=12 is [key |-> "INTERVAL", word |-> "", digits |-> <<1, 2>>].
\* The empty sequence is the empty string.
Units == {"DAILY", "WEEKLY", "MONTHLY", "YEARLY"}

Part(key, word, digits) == [key |-> key, word |-> word, digits |-> digits]

\* `${n}` of a number that is no less than 0.
RECURSIVE ToDigits(_)
ToDigits(n) == IF n < 10 THEN <<n>> ELSE Append(ToDigits(n \div 10), n % 10)

\* parseInt(digits, 10) of a non-empty run of digits.
RECURSIVE ParseInt(_)
ParseInt(digits) ==
    IF Len(digits) = 1 THEN digits[1]
    ELSE 10 * ParseInt(SubSeq(digits, 1, Len(digits) - 1)) + digits[Len(digits)]

\* Mutant of buildRule: the interval is written without its last digit.
buildRuleShort(unit, interval) ==
    <<Part("FREQ", unit, <<>>), Part("INTERVAL", "", ToDigits(interval \div 10))>>

\* `RRULE:FREQ=${recurrenceUnit};INTERVAL=${recurrenceInterval}`
buildRule(unit, interval) ==
    <<Part("FREQ", unit, <<>>), Part("INTERVAL", "", ToDigits(interval))>>

\* /FREQ=(DAILY|WEEKLY|MONTHLY|YEARLY)/ and /INTERVAL=(\d+)/
FreqPattern(part) == part.key = "FREQ" /\ part.word \in Units
IntervalPattern(part) == part.key = "INTERVAL" /\ part.digits # <<>>

\* rule.match(pattern): the first part of rule that matches, 0 for null.
FreqMatch(rule) ==
    IF \E k \in 1..Len(rule) : FreqPattern(rule[k])
    THEN CHOOSE k \in 1..Len(rule) :
             FreqPattern(rule[k]) /\ \A j \in 1..(k - 1) : ~FreqPattern(rule[j])
    ELSE 0

IntervalMatch(rule) ==
    IF \E k \in 1..Len(rule) : IntervalPattern(rule[k])
    THEN CHOOSE k \in 1..Len(rule) :
             IntervalPattern(rule[k]) /\ \A j \in 1..(k - 1) : ~IntervalPattern(rule[j])
    ELSE 0

\* Mutant of parseRule: a rule without a unit resets the unit to DAILY.
parseRuleResets(rule, prior) ==
    LET freqMatch == FreqMatch(rule)
        intervalMatch == IntervalMatch(rule)
    IN [unit |-> IF freqMatch # 0 THEN rule[freqMatch].word ELSE "DAILY",
        interval |-> IF intervalMatch # 0
                     THEN ParseInt(rule[intervalMatch].digits)
                     ELSE prior.interval]

\* The two matches of the parse effect: what setRecurrenceUnit and
\* setRecurrenceInterval leave, given the values before.
parseRule(rule, prior) ==
    LET freqMatch == FreqMatch(rule)
        intervalMatch == IntervalMatch(rule)
    IN [unit |-> IF freqMatch # 0 THEN rule[freqMatch].word ELSE prior.unit,
        interval |-> IF intervalMatch # 0
                     THEN ParseInt(rule[intervalMatch].digits)
                     ELSE prior.interval]

\* The compose effect: formData.recurrence for the state of the controls.
Composed(enabled, unit, interval) ==
    IF ~enabled THEN <<>> ELSE buildRule(unit, interval)

\* Rules that extraction may return besides the composed ones: none,
\* 'every week', FREQ=DAILY, INTERVAL=3, FREQ=HOURLY;INTERVAL=2,
\* FREQ=WEEKLY;BYDAY=MO, FREQ=YEARLY;INTERVAL=x.
OtherRules ==
    {<<>>,
     <<Part("every week", "", <<>>)>>,
     <<Part("FREQ", "DAILY", <<>>)>>,
     <<Part("INTERVAL", "", <<3>>)>>,
     <<Part("FREQ", "HOURLY", <<>>), Part("INTERVAL", "", <<2>>)>>,
     <<Part("FREQ", "WEEKLY", <<>>), Part("BYDAY", "MO", <<>>)>>,
     <<Part("FREQ", "YEARLY", <<>>), Part("INTERVAL", "x", <<>>)>>}

ExtractedRules ==
    OtherRules \cup {buildRule(u, n) : u \in Units, n \in 0..MaxInterval}

\* e.target.value of the interval input: '', '0', '-3', '2', '1000'.
Typed ==
    {[neg |-> FALSE, digits |-> <<>>], [neg |-> FALSE, digits |-> <<0>>],
     [neg |-> TRUE, digits |-> <<3>>], [neg |-> FALSE, digits |-> <<2>>],
     [neg |-> FALSE, digits |-> <<1, 0, 0, 0>>]}

\* Math.max(1, parseInt(e.target.value) || 1)
TypedInterval(v) ==
    LET n == IF v.digits = <<>> THEN 0
             ELSE IF v.neg THEN -ParseInt(v.digits) ELSE ParseInt(v.digits)
        orOne == IF n = 0 THEN 1 ELSE n
    IN IF orOne > 1 THEN orOne ELSE 1

\* The useState values of a form not yet mounted on initial data whose
\* recurrence is rule.
Unmounted(rule) ==
    [mounted |-> FALSE, initial |-> rule, enabled |-> FALSE, interval |-> 1,
     unit |-> "WEEKLY", recurrence |-> rule]

RuleIdle == form = Unmounted(<<>>)

FunInit == NormInit /\ LinkIdle /\ RuleIdle /\ CodecIdle

\* The build as configured in the source: direct mode, with a credential.
Init ==
    /\ AppInit
    /\ PipeInit
    /\ FunInit
    /\ useProxy = FALSE
    /\ hasKey = TRUE

\* Everything a handler leaves for the next render: cards and their timers.
Rerender ==
    /\ cards' = Reconcile(cards, appState', events', stackOrder')
    /\ addedTimers' = LiveAdded(addedTimers, cards')

\* ----------------------------------------------------------------- actions
\* Mutant of Capture: setErrorMessage('') is missing.
CaptureKeepsMessage ==
    /\ DropzoneMounted(appState)
    /\ nextId <= MaxCaptures
    /\ appState' = "PROCESSING"
    /\ previewImage' = nextId
    /\ liveUrls' = AfterPreviewChange(liveUrls \cup {nextId}, previewImage, nextId)
    /\ inflight' = inflight \cup {nextId}
    /\ nextId' = nextId + 1
    /\ opened' = NoData
    /\ dismissed' = "none"
    /\ UNCHANGED <<events, stackOrder, errorMessage, dismissTimers, committed,
                   skipped, abandoned>>
    /\ Rerender

\* processImage up to its first await, called by the ImageDropzone.
Capture ==
    /\ DropzoneMounted(appState)
    /\ nextId <= MaxCaptures
    /\ appState' = "PROCESSING"
    /\ errorMessage' = ""
    /\ previewImage' = nextId
    /\ liveUrls' = AfterPreviewChange(liveUrls \cup {nextId}, previewImage, nextId)
    /\ inflight' = inflight \cup {nextId}
    /\ nextId' = nextId + 1
    /\ opened' = NoData
    /\ dismissed' = "none"
    /\ UNCHANGED <<events, stackOrder, dismissTimers, committed, skipped, abandoned>>
    /\ Rerender

\* processImage after its awaits, the try branch: the extraction of image r
\* returned n events.
ExtractionSucceeds(r, n) ==
    /\ r \in inflight
    /\ inflight' = inflight \ {r}
    /\ abandoned' = abandoned \ {r}
    /\ events' = Batch(r, n)
    /\ stackOrder' = Identity(n)
    /\ appState' = "REVIEW"
    /\ committed' = FALSE
    /\ skipped' = FALSE
    /\ opened' = NoData
    /\ dismissed' = "none"
    /\ UNCHANGED <<errorMessage, previewImage, liveUrls, nextId, dismissTimers>>
    /\ Rerender

\* processImage after its awaits, the catch branch.
ExtractionFails(r) ==
    /\ r \in inflight
    /\ inflight' = inflight \ {r}
    /\ abandoned' = abandoned \ {r}
    /\ errorMessage' = ErrorText
    /\ appState' = "ERROR"
    /\ opened' = NoData
    /\ dismissed' = "none"
    /\ UNCHANGED <<events, stackOrder, previewImage, liveUrls, nextId,
                   dismissTimers, committed, skipped>>
    /\ Rerender

\* Mutant of Reset: the preview is neither revoked nor cleared.
ResetKeepsPreview ==
    /\ appState' = "IDLE"
    /\ events' = <<>>
    /\ stackOrder' = <<>>
    /\ errorMessage' = ""
    /\ abandoned' = inflight
    /\ committed' = FALSE
    /\ skipped' = FALSE
    /\ opened' = NoData
    /\ dismissed' = "none"
    /\ UNCHANGED <<previewImage, liveUrls, inflight, nextId, dismissTimers>>
    /\ Rerender

\* resetApp: the "New Scan" link (every state), the back button and
\* "Scan Another" (Review).
Reset ==
    /\ appState' = "IDLE"
    /\ events' = <<>>
    /\ stackOrder' = <<>>
    /\ errorMessage' = ""
    /\ previewImage' = 0
    /\ liveUrls' = liveUrls \ {previewImage}
    /\ abandoned' = inflight
    /\ committed' = FALSE
    /\ skipped' = FALSE
    /\ opened' = NoData
    /\ dismissed' = "none"
    /\ UNCHANGED <<inflight, nextId, dismissTimers>>
    /\ Rerender

\* Mutant of Discard: the button is wired to handleCardSaved, the removal
\* waits for the delay.
DiscardAfterDelay(i) ==
    /\ Interactive(i, appState, events, stackOrder)
    /\ Len(dismissTimers) < MaxTimers
    /\ dismissTimers' = Append(dismissTimers, DismissTicks)
    /\ opened' = NoData
    /\ dismissed' = "button"
    /\ UNCHANGED <<appState, events, stackOrder, errorMessage, previewImage, liveUrls,
                   inflight, nextId, cards, addedTimers, committed, skipped, abandoned>>

\* dismissCurrentCard, as the Discard button of the front card calls it.
Discard(i) ==
    /\ Interactive(i, appState, events, stackOrder)
    /\ stackOrder' = Shift(stackOrder)
    /\ committed' = FALSE
    /\ UNCHANGED <<skipped, abandoned>>
    /\ opened' = NoData
    /\ dismissed' = "button"
    /\ UNCHANGED <<appState, events, errorMessage, previewImage, liveUrls,
                   inflight, nextId, dismissTimers>>
    /\ Rerender

\* Mutant of Edit: the typed value is written to the candidate array too.
EditWritesArray(i, v) ==
    /\ Interactive(i, appState, events, stackOrder)
    /\ cards[i].formData.title # v
    /\ cards' = [cards EXCEPT ![i].formData.title = v]
    /\ events' = [events EXCEPT ![i + 1].title = v]
    /\ opened' = NoData
    /\ dismissed' = "none"
    /\ UNCHANGED <<appState, stackOrder, errorMessage, previewImage,
                   liveUrls, inflight, nextId, dismissTimers, addedTimers,
                   committed, skipped, abandoned>>

\* handleChange on a field of the front card.
Edit(i, v) ==
    /\ Interactive(i, appState, events, stackOrder)
    /\ cards[i].formData.title # v
    /\ cards' = [cards EXCEPT ![i].formData.title = v]
    /\ opened' = NoData
    /\ dismissed' = "none"
    /\ UNCHANGED <<appState, events, stackOrder, errorMessage, previewImage,
                   liveUrls, inflight, nextId, dismissTimers, addedTimers,
                   committed, skipped, abandoned>>

\* Mutant of Commit: the form data is also written to the candidate array.
CommitWritesBack(i) ==
    /\ Interactive(i, appState, events, stackOrder)
    /\ Len(dismissTimers) < MaxTimers
    /\ opened' = cards[i].formData
    /\ dismissed' = "none"
    /\ events' = [events EXCEPT ![i + 1] = cards[i].formData]
    /\ cards' = [cards EXCEPT ![i].isAdded = TRUE]
    /\ dismissTimers' = Append(dismissTimers, DismissTicks)
    /\ addedTimers' = addedTimers \cup {<<i, AddedTicks>>}
    /\ committed' = TRUE
    /\ UNCHANGED <<appState, stackOrder, errorMessage, previewImage,
                   liveUrls, inflight, nextId, skipped, abandoned>>

\* The Save link of the front card: the browser opens calendarUrl (computed
\* from formData), handleAddToCalendar sets isAdded, calls onComplete
\* (handleCardSaved: the dismiss timer) and starts the isAdded timer.
Commit(i) ==
    /\ Interactive(i, appState, events, stackOrder)
    /\ Len(dismissTimers) < MaxTimers
    /\ opened' = cards[i].formData
    /\ dismissed' = "none"
    /\ cards' = [cards EXCEPT ![i].isAdded = TRUE]
    /\ dismissTimers' = Append(dismissTimers, DismissTicks)
    /\ addedTimers' = addedTimers \cup {<<i, AddedTicks>>}
    /\ committed' = TRUE
    /\ UNCHANGED <<appState, events, stackOrder, errorMessage, previewImage,
                   liveUrls, inflight, nextId, skipped, abandoned>>

\* The Discard button of a card that is not at the front, activated from
\* the keyboard: dismissCurrentCard removes the front of the queue.
KeyDiscard(i) ==
    /\ KeyboardOnly(i, appState, events, stackOrder)
    /\ stackOrder' = Shift(stackOrder)
    /\ committed' = FALSE
    /\ skipped' = (skipped \/ ~committed)
    /\ opened' = NoData
    /\ dismissed' = "key"
    /\ UNCHANGED <<appState, events, errorMessage, previewImage, liveUrls,
                   inflight, nextId, dismissTimers, abandoned>>
    /\ Rerender

\* handleChange on a field of a card that is not at the front, typed into
\* from the keyboard.
KeyEdit(i, v) ==
    /\ KeyboardOnly(i, appState, events, stackOrder)
    /\ cards[i].formData.title # v
    /\ cards' = [cards EXCEPT ![i].formData.title = v]
    /\ opened' = NoData
    /\ dismissed' = "none"
    /\ UNCHANGED <<appState, events, stackOrder, errorMessage, previewImage,
                   liveUrls, inflight, nextId, dismissTimers, addedTimers,
                   committed, skipped, abandoned>>

\* The Save link of a card that is not at the front, activated from the
\* keyboard: its link opens and the dismiss timer will remove the front.
KeyCommit(i) ==
    /\ KeyboardOnly(i, appState, events, stackOrder)
    /\ Len(dismissTimers) < MaxTimers
    /\ opened' = cards[i].formData
    /\ dismissed' = "none"
    /\ cards' = [cards EXCEPT ![i].isAdded = TRUE]
    /\ dismissTimers' = Append(dismissTimers, DismissTicks)
    /\ addedTimers' = addedTimers \cup {<<i, AddedTicks>>}
    /\ UNCHANGED <<appState, events, stackOrder, errorMessage, previewImage,
                   liveUrls, inflight, nextId, committed, skipped, abandoned>>

\* Mutant of FireDismiss: a removal from an empty queue is reported as an error.
FireDismissRaises ==
    /\ dismissTimers # <<>>
    /\ Head(dismissTimers) = 0
    /\ dismissTimers' = Tail(dismissTimers)
    /\ stackOrder' = Shift(stackOrder)
    /\ appState' = IF stackOrder = <<>> THEN "ERROR" ELSE appState
    /\ errorMessage' = IF stackOrder = <<>> THEN ErrorText ELSE errorMessage
    /\ opened' = NoData
    /\ dismissed' = IF stackOrder = <<>> THEN "timerOnEmpty" ELSE "timer"
    /\ committed' = FALSE
    /\ skipped' = (skipped \/ (stackOrder # <<>> /\ ~committed))
    /\ UNCHANGED <<events, previewImage, liveUrls, inflight, nextId, abandoned>>
    /\ Rerender

\* A due dismiss timer runs dismissCurrentCard.
FireDismiss ==
    /\ dismissTimers # <<>>
    /\ Head(dismissTimers) = 0
    /\ dismissTimers' = Tail(dismissTimers)
    /\ stackOrder' = Shift(stackOrder)
    /\ opened' = NoData
    /\ dismissed' = IF stackOrder = <<>> THEN "timerOnEmpty" ELSE "timer"
    /\ committed' = FALSE
    /\ skipped' = (skipped \/ (stackOrder # <<>> /\ ~committed))
    /\ UNCHANGED <<appState, events, errorMessage, previewImage, liveUrls,
                   inflight, nextId, abandoned>>
    /\ Rerender

\* A due isAdded timer runs setIsAdded(false) on its card.
FireAdded(i) ==
    /\ <<i, 0>> \in addedTimers
    /\ addedTimers' = addedTimers \ {<<i, 0>>}
    /\ cards' = [cards EXCEPT ![i].isAdded = FALSE]
    /\ opened' = NoData
    /\ dismissed' = "none"
    /\ UNCHANGED <<appState, events, stackOrder, errorMessage, previewImage,
                   liveUrls, inflight, nextId, dismissTimers, committed, skipped, abandoned>>

TimerDue ==
    \/ \E k \in 1..Len(dismissTimers) : dismissTimers[k] = 0
    \/ \E t \in addedTimers : t[2] = 0

\* 500 ms pass: possible once every due timer has run.
Tick ==
    /\ ~TimerDue
    /\ dismissTimers # <<>> \/ addedTimers # {}
    /\ dismissTimers' = [k \in 1..Len(dismissTimers) |-> dismissTimers[k] - 1]
    /\ addedTimers' = {<<t[1], t[2] - 1>> : t \in addedTimers}
    /\ opened' = NoData
    /\ dismissed' = "none"
    /\ UNCHANGED <<appState, events, stackOrder, errorMessage, previewImage,
                   liveUrls, inflight, nextId, cards, committed, skipped, abandoned>>

\* A step of the review session; how an extraction comes by its result is
\* left open here (ExtractionSucceeds, ExtractionFails).
Next ==
    \/ Capture /\ UNCHANGED <<pipeVars, funVars>>
    \/ \E r \in 1..MaxCaptures, n \in 0..MaxEvents : ExtractionSucceeds(r, n) /\ UNCHANGED <<pipeVars, funVars>>
    \/ \E r \in 1..MaxCaptures : ExtractionFails(r) /\ UNCHANGED <<pipeVars, funVars>>
    \/ Reset /\ UNCHANGED <<pipeVars, funVars>>
    \/ \E i \in CardIdx : Discard(i) /\ UNCHANGED <<pipeVars, funVars>>
    \/ \E i \in CardIdx, v \in Titles : Edit(i, v) /\ UNCHANGED <<pipeVars, funVars>>
    \/ \E i \in CardIdx : Commit(i) /\ UNCHANGED <<pipeVars, funVars>>
    \/ \E i \in CardIdx : KeyDiscard(i) /\ UNCHANGED <<pipeVars, funVars>>
    \/ \E i \in CardIdx, v \in Titles : KeyEdit(i, v) /\ UNCHANGED <<pipeVars, funVars>>
    \/ \E i \in CardIdx : KeyCommit(i) /\ UNCHANGED <<pipeVars, funVars>>
    \/ FireDismiss /\ UNCHANGED <<pipeVars, funVars>>
    \/ \E i \in CardIdx : FireAdded(i) /\ UNCHANGED <<pipeVars, funVars>>
    \/ Tick /\ UNCHANGED <<pipeVars, funVars>>

Spec == Init /\ [][Next]_vars

\* -------------------------------------------------------- the orchestrator
\* What the relay's error body or the model service reports; any text.
Upstream == "upstream message"

\* getClient
NoKeyText == "API Key not found in environment variables"

\* extractEventDetailsDirect
NoTextText == "No response from AI"

\* extractEventDetailsDirect, around JSON.parse
ParseText == "Failed to parse AI response as JSON"

\* extractEventDetailsViaProxy
BackendText == "Backend request failed"

\* Errors that carry no message of the program or of the upstream: the
\* FileReader's error event, the TypeError of a failed fetch or of a property
\* read on null, the SyntaxError of response.json().
RuntimeErrors == {"read error", "network error", "TypeError", "SyntaxError"}

Stages == {"none", "reading", "requesting", "returned", "threwEarly", "threw"}

PipeTypeOK ==
    /\ useProxy \in BOOLEAN
    /\ hasKey \in BOOLEAN
    /\ stage \in [1..MaxCaptures -> Stages]
    /\ requests \in [1..MaxCaptures -> 0..2]
    /\ caught \in {"", Upstream, NoKeyText, NoTextText, ParseText, BackendText}
                      \cup RuntimeErrors

\* Any build: either transport mode, the client's credential set or not.
ExtractInit ==
    /\ AppInit
    /\ PipeInit
    /\ FunInit
    /\ useProxy \in BOOLEAN
    /\ hasKey \in BOOLEAN

\* The ImageDropzone hands a file to processImage, which runs up to
\* await fileToGenerativePart(file).
StartExtraction ==
    /\ Capture
    /\ stage' = [stage EXCEPT ![nextId] = "reading"]
    /\ UNCHANGED <<useProxy, hasKey, requests, caught>>

\* resetApp while the orchestrator is at work: it neither knows nor stops it.
ResetDuringExtraction ==
    /\ Reset
    /\ UNCHANGED pipeVars

\* The catch branch of processImage for an error the call of r threw before
\* any request was issued.
ThrowsEarly(r, msg) ==
    /\ ExtractionFails(r)
    /\ stage' = [stage EXCEPT ![r] = "threwEarly"]
    /\ caught' = msg
    /\ UNCHANGED <<useProxy, hasKey, requests>>

\* Mutant of Throws: the failed request is issued again.
ThrowsAndRetries(r, msg) ==
    /\ r \in inflight
    /\ requests[r] < 2
    /\ requests' = [requests EXCEPT ![r] = @ + 1]
    /\ caught' = msg
    /\ opened' = NoData
    /\ dismissed' = "none"
    /\ UNCHANGED <<appState, events, stackOrder, errorMessage, previewImage, liveUrls,
                   inflight, nextId, cards, dismissTimers, addedTimers, committed,
                   skipped, abandoned, useProxy, hasKey, stage>>

\* The catch branch of processImage for an error thrown once the request of
\* r was issued: both modes log and rethrow, and nothing is tried again.
Throws(r, msg) ==
    /\ ExtractionFails(r)
    /\ stage' = [stage EXCEPT ![r] = "threw"]
    /\ caught' = msg
    /\ UNCHANGED <<useProxy, hasKey, requests>>

\* fileToGenerativePart rejects: reader.onerror.
FileReadFails(r) ==
    /\ stage[r] = "reading"
    /\ ThrowsEarly(r, "read error")

\* Direct mode, getClient finds no API key and throws.
GetClientThrows(r) ==
    /\ stage[r] = "reading"
    /\ ~useProxy
    /\ ~hasKey
    /\ ThrowsEarly(r, NoKeyText)

\* The file is read and the one request goes out: fetch(BACKEND_URL) in
\* relay mode, ai.models.generateContent in direct mode after getClient.
SendRequest(r) ==
    /\ stage[r] = "reading"
    /\ useProxy \/ hasKey
    /\ stage' = [stage EXCEPT ![r] = "requesting"]
    /\ requests' = [requests EXCEPT ![r] = @ + 1]
    /\ UNCHANGED <<appVars, useProxy, hasKey, caught>>

\* The ways a request of the current mode ends in an error, by message.
\* Relay: fetch rejects; status not ok with an error body, or without one;
\* the body of an ok response is not JSON; an element of it is null.
\* Direct: generateContent rejects with the service's message; the response
\* has no text; the text does not parse; an element of it is null.
Failures ==
    IF useProxy
    THEN {"network error", Upstream, BackendText, "SyntaxError", "TypeError"}
    ELSE {Upstream, NoTextText, ParseText, "TypeError"}

\* The request of r fails with msg.
RequestFails(r, msg) ==
    /\ stage[r] = "requesting"
    /\ msg \in Failures
    /\ Throws(r, msg)

\* The request of r yields n candidates (mapToEventDetails), which
\* processImage stores.
RequestSucceeds(r, n) ==
    /\ stage[r] = "requesting"
    /\ ExtractionSucceeds(r, n)
    /\ stage' = [stage EXCEPT ![r] = "returned"]
    /\ UNCHANGED <<useProxy, hasKey, requests, caught>>

ExtractNext ==
    \/ StartExtraction /\ UNCHANGED funVars
    \/ ResetDuringExtraction /\ UNCHANGED funVars
    \/ \E r \in 1..MaxCaptures : FileReadFails(r) /\ UNCHANGED funVars
    \/ \E r \in 1..MaxCaptures : GetClientThrows(r) /\ UNCHANGED funVars
    \/ \E r \in 1..MaxCaptures : SendRequest(r) /\ UNCHANGED funVars
    \/ \E r \in 1..MaxCaptures, msg \in {Upstream, NoTextText, ParseText, BackendText}
                                        \cup RuntimeErrors :
          RequestFails(r, msg) /\ UNCHANGED funVars
    \/ \E r \in 1..MaxCaptures, n \in 0..MaxEvents :
          RequestSucceeds(r, n) /\ UNCHANGED funVars

\* Captures, resets and the orchestrator's steps, in either mode.
ExtractSpec == ExtractInit /\ [][ExtractNext]_vars

\* --------------------------------------------------------- the normalizer
\* A response text is a sequence of tokens, each standing for a piece of text:
\*   "[" "]" ","   the JSON punctuation
\*   "O"           {"title":"Standup","startDateTime":"2025-06-02T09:00:00"}
\*   "E"           {"title":""}
\*   "B"           {"title":"[Webinar] Launch","extra":true}
\*   "n"           null
\*   "s"           "x", a JSON string
\*   "p"           a word of prose
\*   "F"           the fence ```json
\*   "f"           the fence ```
Alphabet == {"[", "]", ",", "O", "E", "B", "n", "s", "p", "F", "f"}

FieldNames == {"title", "location", "description", "startDateTime", "endDateTime",
               "recurrence"}

NoFields == [fn \in FieldNames |-> Undefined]

\* What JSON.parse yields, or Failed when it throws.  f holds the properties
\* the mapping reads (all undefined on a string and on an array).
Failed == [k |-> "failed", f |-> NoFields, items |-> <<>>]

Atom(tok) ==
    IF tok = "O"
    THEN [k |-> "object",
          f |-> [NoFields EXCEPT !["title"] = "Standup",
                                 !["startDateTime"] = "2025-06-02T09:00:00"],
          items |-> <<>>]
    ELSE IF tok = "E"
    THEN [k |-> "object", f |-> [NoFields EXCEPT !["title"] = ""], items |-> <<>>]
    ELSE IF tok = "B"
    THEN [k |-> "object",
          f |-> [NoFields EXCEPT !["title"] = "[Webinar] Launch"],
          items |-> <<>>]
    ELSE IF tok = "n" THEN [k |-> "null", f |-> NoFields, items |-> <<>>]
    ELSE IF tok = "s" THEN [k |-> "string", f |-> NoFields, items |-> <<>>]
    ELSE Failed

\* The text of "B" holds square brackets of its own: its pieces are the head
\* of the object (with its '{'), '[', a word, ']' and the tail (with its '}').
BParts == <<"{", "[", "p", "]", "}">>

\* The text with every "B" spelled out, as indexOf and substring see it.
RECURSIVE Expand(_)
Expand(t) ==
    IF t = <<>> THEN <<>>
    ELSE (IF Head(t) = "B" THEN BParts ELSE <<Head(t)>>) \o Expand(Tail(t))

\* The inverse: every whole "B" of the text is one token again; a piece of
\* a "B" that substring has cut stays a piece, which is no JSON.
RECURSIVE Collapse(_)
Collapse(t) ==
    IF t = <<>> THEN <<>>
    ELSE IF Len(t) >= Len(BParts) /\ SubSeq(t, 1, Len(BParts)) = BParts
    THEN <<"B">> \o Collapse(SubSeq(t, Len(BParts) + 1, Len(t)))
    ELSE <<Head(t)>> \o Collapse(Tail(t))

\* String.prototype.indexOf / lastIndexOf for a piece of text that occurs
\* in the tokens of set toks only; 0-based, -1 when absent.
FirstOf(t, toks) ==
    IF \E k \in 1..Len(t) : t[k] \in toks
    THEN (CHOOSE k \in 1..Len(t) : t[k] \in toks /\ \A j \in 1..(k - 1) : t[j] \notin toks) - 1
    ELSE -1

LastOf(t, toks) ==
    IF \E k \in 1..Len(t) : t[k] \in toks
    THEN (CHOOSE k \in 1..Len(t) :
              t[k] \in toks /\ \A j \in (k + 1)..Len(t) : t[j] \notin toks) - 1
    ELSE -1

\* String.prototype.substring(a, b): the arguments are swapped when a > b.
Substring(t, a, b) ==
    LET lo == IF a < b THEN a ELSE b
        hi == IF a < b THEN b ELSE a
    IN SubSeq(t, lo + 1, hi)

\* Brackets open before position k of t, less those closed.
RECURSIVE Depth(_, _)
Depth(t, k) ==
    IF k <= 1 THEN 0
    ELSE Depth(t, k - 1) + (IF t[k - 1] = "[" THEN 1 ELSE IF t[k - 1] = "]" THEN -1 ELSE 0)

\* The pieces of t between its commas of depth 0.
RECURSIVE SplitTop(_)
SplitTop(t) ==
    LET commas == {k \in 1..Len(t) : t[k] = "," /\ Depth(t, k) = 0}
    IN IF commas = {} THEN <<t>>
       ELSE LET c == CHOOSE k \in commas : \A j \in commas : k <= j
            IN <<SubSeq(t, 1, c - 1)>> \o SplitTop(SubSeq(t, c + 1, Len(t)))

\* JSON.parse on a text of these tokens.
RECURSIVE JsonParse(_)
JsonParse(t) ==
    IF Len(t) = 0 THEN Failed
    ELSE IF Len(t) = 1 THEN Atom(t[1])
    ELSE IF t[1] = "[" /\ t[Len(t)] = "]"
    THEN LET inner == SubSeq(t, 2, Len(t) - 1)
         IN IF inner = <<>>
            THEN [k |-> "array", f |-> NoFields, items |-> <<>>]
            ELSE LET parts == SplitTop(inner)
                     vals == [j \in 1..Len(parts) |-> JsonParse(parts[j])]
                 IN IF \E j \in 1..Len(vals) : vals[j] = Failed
                    THEN Failed
                    ELSE [k |-> "array", f |-> NoFields, items |-> vals]
    ELSE Failed

\* if (jsonString.includes('```json')) both fences are removed everywhere.
StripFences(t) ==
    IF \E k \in 1..Len(t) : t[k] = "F"
    THEN SelectSeq(t, LAMBDA tok : tok \notin {"F", "f"})
    ELSE t

\* Mutant of Isolate: substring(firstBracket, lastBracket) leaves out the
\* closing bracket.
IsolateDropsClose(t) ==
    LET x == Expand(t)
        firstBracket == FirstOf(x, {"["})
        lastBracket == LastOf(x, {"]"})
        firstBrace == FirstOf(x, {"O", "E", "{"})
        lastBrace == LastOf(x, {"O", "E", "}"})
    IN IF firstBracket # -1 /\ lastBracket # -1
       THEN Collapse(Substring(x, firstBracket, lastBracket))
       ELSE IF firstBrace # -1 /\ lastBrace # -1
       THEN <<"[">> \o Collapse(Substring(x, firstBrace, lastBrace + 1)) \o <<"]">>
       ELSE t

\* "Find the array bounds" and the fallback for a single object.
Isolate(t) ==
    LET x == Expand(t)
        firstBracket == FirstOf(x, {"["})
        lastBracket == LastOf(x, {"]"})
        firstBrace == FirstOf(x, {"O", "E", "{"})
        lastBrace == LastOf(x, {"O", "E", "}"})
    IN IF firstBracket # -1 /\ lastBracket # -1
       THEN Collapse(Substring(x, firstBracket, lastBracket + 1))
       ELSE IF firstBrace # -1 /\ lastBrace # -1
       THEN <<"[">> \o Collapse(Substring(x, firstBrace, lastBrace + 1)) \o <<"]">>
       ELSE t

\* The arrow function of dataArray.map.
MapItem(item) ==
    [fn \in FieldNames |->
        OrElse(item.f[fn], IF fn = "title" THEN "Untitled Event" ELSE "")]

\* mapToEventDetails: reading a property of null throws a TypeError.
mapToEventDetails(data) ==
    LET dataArray == IF data.k = "array" THEN data.items ELSE <<data>>
    IN IF \E j \in 1..Len(dataArray) : dataArray[j].k = "null"
       THEN [status |-> "TypeError", list |-> <<>>]
       ELSE [status |-> "ok",
             list |-> [j \in 1..Len(dataArray) |-> MapItem(dataArray[j])]]

\* Mutant of extractEventDetailsDirect: the text is parsed as it is, no
\* array or object is located in it.
extractWithoutLocating(responseText) ==
    IF responseText = <<>>
    THEN [status |-> NoTextText, list |-> <<>>]
    ELSE LET data == JsonParse(StripFences(responseText))
         IN IF data = Failed
            THEN [status |-> ParseText, list |-> <<>>]
            ELSE mapToEventDetails(data)

\* extractEventDetailsDirect from "const responseText = response.text" on.
extractEventDetailsDirect(responseText) ==
    IF responseText = <<>>
    THEN [status |-> NoTextText, list |-> <<>>]
    ELSE LET data == JsonParse(Isolate(StripFences(responseText)))
         IN IF data = Failed
            THEN [status |-> ParseText, list |-> <<>>]
            ELSE mapToEventDetails(data)

\* The model may answer with any text of up to MaxLen tokens (drawn as two
\* halves).
NormalizeInit ==
    /\ AppInit
    /\ PipeInit
    /\ useProxy = FALSE
    /\ hasKey = TRUE
    /\ \E n \in 0..MaxLen :
          \E x \in [1..(n \div 2) -> Alphabet], y \in [1..(n - (n \div 2)) -> Alphabet] :
              rawText = x \o y
    /\ result = [status |-> "pending", list |-> <<>>]
    /\ relayed = [status |-> "pending", list |-> <<>>]
    /\ LinkIdle
    /\ RuleIdle
    /\ CodecIdle

\* The response text is normalised.
Normalize ==
    /\ result.status = "pending"
    /\ result' = extractEventDetailsDirect(rawText)
    /\ UNCHANGED <<rawText, relayed, appVars, pipeVars, linkVars, ruleVars, codecVars>>

NormalizeNext == Normalize

\* extractEventDetailsDirect applied to every response text up to MaxLen tokens.
NormalizeSpec == NormalizeInit /\ [][NormalizeNext]_vars

\* -------------------------------------------------------------- relay mode
\* Mutant of ServerIsolate: the fallback for a single object is missing.
ServerIsolateNoFallback(t) ==
    LET x == Expand(t)
        firstBracket == FirstOf(x, {"["})
        lastBracket == LastOf(x, {"]"})
    IN IF firstBracket # -1 /\ lastBracket # -1
       THEN Collapse(Substring(x, firstBracket, lastBracket + 1))
       ELSE t

\* "Isolate the JSON array/object from the string" of the relay server.
ServerIsolate(t) ==
    LET x == Expand(t)
        firstBracket == FirstOf(x, {"["})
        lastBracket == LastOf(x, {"]"})
        firstBrace == FirstOf(x, {"O", "E", "{"})
        lastBrace == LastOf(x, {"O", "E", "}"})
    IN IF firstBracket # -1 /\ lastBracket # -1
       THEN Collapse(Substring(x, firstBracket, lastBracket + 1))
       ELSE IF firstBrace # -1 /\ lastBrace # -1
       THEN <<"[">> \o Collapse(Substring(x, firstBrace, lastBrace + 1)) \o <<"]">>
       ELSE t

\* JSON.stringify of a parsed value, as res.json sends it.
RECURSIVE Stringify(_)
Stringify(v) ==
    IF v.k = "array"
    THEN LET n == Len(v.items)
             Joined[j \in 0..n] ==
                 IF j = 0 THEN <<>>
                 ELSE Joined[j - 1] \o (IF j = 1 THEN <<>> ELSE <<",">>)
                                   \o Stringify(v.items[j])
         IN <<"[">> \o Joined[n] \o <<"]">>
    ELSE IF v.k = "null" THEN <<"n">>
    ELSE IF v.k = "string" THEN <<"s">>
    ELSE IF v.f["title"] = "Standup" THEN <<"O">>
    ELSE IF v.f["title"] = "" THEN <<"E">>
    ELSE <<"B">>

ServerErrorText == "Failed to process image via backend."

\* The handler of POST /api/extract from "const responseText" on: the
\* response it sends.
relayHandler(responseText) ==
    LET parsedData == JsonParse(ServerIsolate(StripFences(responseText)))
    IN IF parsedData = Failed
       THEN [ok |-> FALSE, error |-> ServerErrorText, body |-> <<>>]
       ELSE [ok |-> TRUE, error |-> "", body |-> Stringify(parsedData)]

\* extractEventDetailsViaProxy from "if (!response.ok)" on.
extractEventDetailsViaProxy(response) ==
    IF ~response.ok
    THEN [status |-> OrElse(response.error, BackendText), list |-> <<>>]
    ELSE LET data == JsonParse(response.body)
         IN IF data = Failed
            THEN [status |-> "SyntaxError", list |-> <<>>]
            ELSE mapToEventDetails(data)

\* The response text is normalised by the relay server and its client.
NormalizeViaProxy ==
    /\ relayed.status = "pending"
    /\ relayed' = extractEventDetailsViaProxy(relayHandler(rawText))
    /\ UNCHANGED <<rawText, result, appVars, pipeVars, linkVars, ruleVars, codecVars>>

RelayNext ==
    \/ Normalize
    \/ NormalizeViaProxy

\* Both modes applied to every response text up to MaxLen tokens.
RelaySpec == NormalizeInit /\ [][RelayNext]_vars

\* ---------------------------------------------------- encoding candidates
\* Any candidate, for any viewer.
LinkInit ==
    /\ AppInit
    /\ PipeInit
    /\ NormInit
    /\ useProxy = FALSE
    /\ hasKey = TRUE
    /\ tz \in Offsets
    /\ event \in LinkInputs
    /\ link = Pending
    /\ RuleIdle
    /\ CodecIdle

\* The candidate is encoded.
Encode ==
    /\ link.status = "pending"
    /\ link' = generateGoogleCalendarUrl(event, tz)
    /\ UNCHANGED <<tz, event, appVars, pipeVars, normVars, ruleVars, codecVars>>

LinkNext == Encode

\* generateGoogleCalendarUrl applied to every candidate of LinkInputs.
LinkSpec == LinkInit /\ [][LinkNext]_vars

\* ------------------------------------------------ the recurrence controls
\* A form about to be mounted on any extracted rule.
RuleInit ==
    /\ AppInit
    /\ PipeInit
    /\ NormInit
    /\ LinkIdle
    /\ CodecIdle
    /\ useProxy = FALSE
    /\ hasKey = TRUE
    /\ form \in {Unmounted(r) : r \in ExtractedRules}

\* The state of the controls after the parse effect has run on rule, and
\* the compose effect after it.
Parsed(f, rule) ==
    LET enabled == f.enabled \/ rule # <<>>
        p == IF rule # <<>> THEN parseRule(rule, f) ELSE [unit |-> f.unit, interval |-> f.interval]
    IN [mounted |-> TRUE, initial |-> rule, enabled |-> enabled,
        interval |-> p.interval, unit |-> p.unit,
        recurrence |-> Composed(enabled, p.unit, p.interval)]

\* First render of the form and its effects.
Mount ==
    /\ ~form.mounted
    /\ form' = Parsed(form, form.initial)

\* The mounted form is rendered with other initial data (its card is keyed
\* by index and is reused for another batch).
Reinit(rule) ==
    /\ form.mounted
    /\ rule # form.initial
    /\ form' = Parsed(form, rule)

\* The user picks Never or Custom.
SetEnabled(b) ==
    /\ form.mounted
    /\ form' = [form EXCEPT !.enabled = b,
                             !.recurrence = Composed(b, form.unit, form.interval)]

\* The user types into the interval input.
TypeInterval(v) ==
    /\ form.mounted
    /\ form.enabled
    /\ form' = [form EXCEPT !.interval = TypedInterval(v),
                             !.recurrence = Composed(TRUE, form.unit, TypedInterval(v))]

\* The user picks a unit.
ChooseUnit(u) ==
    /\ form.mounted
    /\ form.enabled
    /\ form' = [form EXCEPT !.unit = u,
                             !.recurrence = Composed(TRUE, u, form.interval)]

RuleNext ==
    \/ Mount /\ UNCHANGED <<appVars, pipeVars, normVars, linkVars, codecVars>>
    \/ \E rule \in OtherRules :
          Reinit(rule) /\ UNCHANGED <<appVars, pipeVars, normVars, linkVars, codecVars>>
    \/ \E b \in BOOLEAN :
          SetEnabled(b) /\ UNCHANGED <<appVars, pipeVars, normVars, linkVars, codecVars>>
    \/ \E v \in Typed :
          TypeInterval(v) /\ UNCHANGED <<appVars, pipeVars, normVars, linkVars, codecVars>>
    \/ \E u \in Units :
          ChooseUnit(u) /\ UNCHANGED <<appVars, pipeVars, normVars, linkVars, codecVars>>

\* One form on every extracted rule, under every use of its controls.
RuleSpec == RuleInit /\ [][RuleNext]_vars

\* ---------------------------------------------------------- the date codec
\* Any string, any viewer, either engine.
CodecInit ==
    /\ AppInit
    /\ PipeInit
    /\ NormInit
    /\ RuleIdle
    /\ useProxy = FALSE
    /\ hasKey = TRUE
    /\ event = NoEvent
    /\ link = Pending
    /\ tz \in Offsets
    /\ engine \in {"strict", "lenient"}
    /\ given \in CodecInputs
    /\ trip = <<>>

\* The string the next function is applied to: the last result, if it is one.
CanApply == Len(trip) < MaxTrip /\ (trip # <<>> => trip[Len(trip)].status = "ok")
Current == IF trip = <<>> THEN given ELSE trip[Len(trip)].value

Applied(op, res) == [op |-> op, status |-> res.status, value |-> res.value]

ApplyToInput ==
    /\ CanApply
    /\ trip' = Append(trip, Applied("toInput", toInputDateTime(Current, tz)))
    /\ UNCHANGED <<engine, given, tz, event, link, appVars, pipeVars, normVars, ruleVars>>

ApplyFromInput ==
    /\ CanApply
    /\ trip' = Append(trip, Applied("fromInput", fromInputDateTime(Current, tz)))
    /\ UNCHANGED <<engine, given, tz, event, link, appVars, pipeVars, normVars, ruleVars>>

ApplyStamp ==
    /\ CanApply
    /\ trip' = Append(trip, Applied("stamp", Returned(formatToGCalDate(Current, tz))))
    /\ UNCHANGED <<engine, given, tz, event, link, appVars, pipeVars, normVars, ruleVars>>

CodecNext ==
    \/ ApplyToInput
    \/ ApplyFromInput
    \/ ApplyStamp

\* toInputDateTime, fromInputDateTime and formatToGCalDate applied in every
\* order.
CodecSpec == CodecInit /\ [][CodecNext]_vars

\* The card at the front of the queue, -1 when the queue is empty.
Front == IF stackOrder = <<>> THEN -1 ELSE Head(stackOrder)

\* s is what remains of t after removing elements from its front.
IsSuffix(s, t) ==
    /\ Len(s) <= Len(t)
    /\ s = SubSeq(t, Len(t) - Len(s) + 1, Len(t))

\* ------------------------------------------------------------------ claims
\* C1: after any sequence of commits, discards and delayed removals the
\* queue holds no index twice, holds only valid indices of the candidate
\* array, and is a suffix of the identity order [0, ..., n-1].
C1_QueueInvariant ==
    /\ \A j, k \in 1..Len(stackOrder) : stackOrder[j] = stackOrder[k] => j = k
    /\ \A k \in 1..Len(stackOrder) : stackOrder[k] \in 0..(Len(events) - 1)
    /\ IsSuffix(stackOrder, Identity(Len(events)))

\* A batch of full size of which only the last candidate is left.
C1_Witness ==
    /\ appState = "REVIEW"
    /\ Len(events) = MaxEvents
    /\ stackOrder = <<MaxEvents - 1>>

\* C2: the completion of an extraction that was in flight when reset ran
\* changes neither the state, the candidate array, the queue nor the message.
C2_StaleCompletionIgnored ==
    [][\A r \in abandoned :
          (r \in inflight /\ r \notin inflight')
              => UNCHANGED <<appState, events, stackOrder, errorMessage>>]_vars

\* C3: at most one extraction is in flight at every moment, and no capture
\* is accepted while the state is Processing.
C3_AtMostOneInFlight ==
    /\ Cardinality(inflight) <= 1
    /\ appState = "PROCESSING" => ~ENABLED Capture

\* C4: a commit of the front candidate opens the link of its form, marks it
\* saved at once and leaves it in the queue; from then until it leaves the
\* queue the candidate is marked saved.
C4_SavedUntilRemoved ==
    /\ [][\A i \in CardIdx :
            Commit(i) => /\ opened' = cards[i].formData
                         /\ cards'[i].isAdded
                         /\ stackOrder' = stackOrder]_vars
    /\ []((committed /\ Front # -1 /\ cards[Front].mounted) => cards[Front].isAdded)

C6_ResetClearsAll ==
    [][Reset => /\ appState' = "IDLE"
                /\ events' = <<>>
                /\ stackOrder' = <<>>
                /\ errorMessage' = ""
                /\ previewImage' = 0
                /\ liveUrls' = {}]_vars

\* Idle is entered by reset alone: here reset ran while an extraction was
\* in flight, after an earlier capture had been replaced.
C6_Witness ==
    /\ appState = "IDLE"
    /\ abandoned # {}
    /\ nextId > 2
    /\ liveUrls = {}

\* C7: an extraction that succeeds with no candidate leads to Review with
\* an empty queue showing the "all done" view.
C7_EmptyBatchShowsAllDone ==
    (appState = "REVIEW" /\ events = <<>>)
        => (stackOrder = <<>> /\ View(appState, events, stackOrder) = "allDone")

\* C8: an extraction that fails while the state is Processing leads to
\* Error with a message, no candidates, an empty queue, and the preview of
\* the image it was started for still held.
C8_FailureKeepsPreview ==
    [][\A r \in 1..MaxCaptures :
          (appState = "PROCESSING" /\ ExtractionFails(r))
              => /\ appState' = "ERROR"
                 /\ errorMessage' # ""
                 /\ events' = <<>>
                 /\ stackOrder' = <<>>
                 /\ previewImage' = r
                 /\ r \in liveUrls']_vars

\* C9 as stated: no extraction starts directly from Error.
C9_ErrorOnlyToIdle ==
    [][appState = "ERROR" => appState' # "PROCESSING"]_vars

\* C9 as amended: from Error a step of the user either resets, which leads
\* to Idle, or captures an image, which starts one extraction and leads to
\* Processing; both leave the message empty.
C9_ErrorToIdleOrProcessing ==
    [][(appState = "ERROR" /\ inflight \subseteq inflight')
          => \/ appState' = "ERROR"
             \/ appState' = "IDLE" /\ errorMessage' = "" /\ inflight' = inflight
             \/ /\ appState' = "PROCESSING"
                /\ errorMessage' = ""
                /\ Cardinality(inflight') = Cardinality(inflight) + 1]_vars

\* Error, with both transitions on offer.
C9_Witness ==
    /\ appState = "ERROR"
    /\ errorMessage # ""
    /\ ENABLED Capture
    /\ ENABLED Reset

\* Every candidate left the queue by a commit or a discard issued on it
\* at the front, and nothing of the batch is left but a committed front.
AllReviewed ==
    /\ ~skipped
    /\ stackOrder = <<>> \/ (Len(stackOrder) = 1 /\ committed)

\* C10: once every candidate of a batch has been committed or discarded at
\* the front and every delayed removal has fired, the queue is empty and the
\* "all processed" view is shown, which only reset leaves.
C10_TerminalOnlyReset ==
    /\ [](( /\ appState = "REVIEW"
            /\ events # <<>>
            /\ AllReviewed
            /\ dismissTimers = <<>>)
          => View(appState, events, stackOrder) = "allDone")
    /\ [][View(appState, events, stackOrder) = "allDone"
            => \/ UNCHANGED <<appState, events, stackOrder, errorMessage, previewImage>>
               \/ Reset]_vars

\* C11: a discard on the front candidate removes exactly the front index in
\* the same step (the queue becomes its tail), opens no link, and leaves the
\* application state, the candidate array, the message and the preview as
\* they were.
C11_DiscardRemovesFront ==
    [][\A i \in CardIdx :
          Discard(i) => /\ stackOrder # <<>>
                        /\ Head(stackOrder) = i
                        /\ stackOrder' = Tail(stackOrder)
                        /\ opened' = NoData
                        /\ UNCHANGED <<appState, events, errorMessage, previewImage>>]_vars

\* The first candidate of a full batch has just been discarded.
C11_Witness ==
    /\ dismissed = "button"
    /\ appState = "REVIEW"
    /\ Len(events) = MaxEvents
    /\ stackOrder = Tail(Identity(MaxEvents))
    /\ opened = NoData

\* C12: a commit, a discard or a delayed removal that takes effect on an
\* empty queue leaves the queue empty and the application state, the
\* candidate array, the message, the preview, the extractions in flight and
\* the cards unchanged; no error state is entered.
C12_EmptyQueueNoOp ==
    [][(/\ stackOrder = <<>>
        /\ \/ FireDismiss
           \/ \E i \in CardIdx : Commit(i)
           \/ \E i \in CardIdx : Discard(i))
          => /\ stackOrder' = <<>>
             /\ UNCHANGED <<appState, events, errorMessage, previewImage, liveUrls,
                            inflight, cards>>]_vars

\* A delayed removal has just fired on an empty queue.
C12_Witness ==
    /\ dismissed = "timerOnEmpty"
    /\ stackOrder = <<>>
    /\ appState = "REVIEW"
    /\ events # <<>>

\* Candidate i takes input from the user: a field of its card can be
\* changed or its Discard button activated, by pointer or from the keyboard.
AcceptsInput(i) ==
    ENABLED (\/ Discard(i)
             \/ KeyDiscard(i)
             \/ \E v \in Titles : Edit(i, v) \/ KeyEdit(i, v))

\* Candidate i is displayed: rendered at one of the visible queue positions.
Displayed(i) ==
    /\ Rendered(i, appState, events, stackOrder)
    /\ IndexOf(stackOrder, i) \in 0..(VisibleCards - 1)

\* C13: in Review with a non-empty queue exactly one candidate accepts user
\* input, the one at the front of the queue; at most two more are displayed,
\* and neither they, nor the candidates further back, nor the candidates
\* already removed accept input.
C13_OnlyFrontAcceptsInput ==
    (appState = "REVIEW" /\ stackOrder # <<>>)
        => /\ \A i \in CardIdx : AcceptsInput(i) <=> i = Front
           /\ Cardinality({i \in CardIdx : Displayed(i) /\ i # Front}) <= VisibleCards - 1

\* C14: the preview URL is released on reset and when a new capture
\* replaces it: at every moment at most one created URL is unreleased, it is
\* the current preview, and none is unreleased after a reset.
C14_PreviewReleased ==
    /\ [](Cardinality(liveUrls) <= 1 /\ liveUrls \subseteq {previewImage})
    /\ [][Reset => liveUrls' = {}]_vars

\* The second capture is being previewed and the URL of the first is released.
C14_Witness ==
    /\ nextId = 3
    /\ previewImage = 2
    /\ liveUrls = {2}

\* The call of r got as far as issuing its request.
ReachedTransport(r) == stage[r] \in {"requesting", "returned", "threw"}

\* The call of r is over.
Settled(r) == stage[r] \in {"returned", "threw", "threwEarly"}

\* C15 as stated: every capture causes exactly one transport request; a
\* failure issues no further request and keeps no candidate.
C15_ExactlyOneRequest ==
    /\ [](\A r \in 1..MaxCaptures : Settled(r) => requests[r] = 1)
    /\ [][\A r \in 1..MaxCaptures :
            (~Settled(r) /\ stage'[r] \in {"threw", "threwEarly"})
                => UNCHANGED <<requests, events, stackOrder>>]_vars

\* C15 as amended: a capture causes at most one transport request, exactly
\* one once the image is read and (direct mode) the credential is found; a
\* request goes out only for a capture whose image has just been read, and a
\* failure issues no request, adds no candidate and leads to Error.
C15_AtMostOneRequest ==
    /\ [](\A r \in 1..MaxCaptures :
            requests[r] = IF ReachedTransport(r) THEN 1 ELSE 0)
    /\ [][\A r \in 1..MaxCaptures :
            /\ requests'[r] # requests[r] => stage[r] = "reading"
            /\ (~Settled(r) /\ stage'[r] \in {"threw", "threwEarly"})
                  => /\ UNCHANGED <<requests, events, stackOrder>>
                     /\ appState' = "ERROR"]_vars

\* The request of the first capture failed, the user captured again and the
\* second request is out.
C15_Witness ==
    /\ stage[1] = "threw"
    /\ requests[1] = 1
    /\ stage[2] = "requesting"
    /\ requests[2] = 1
    /\ events = <<>>

\* C16: in Error after a failure that carried an upstream message, the
\* message shown is that upstream message; the generic message is shown only
\* when the failure carried none.
C16_UpstreamMessageShown ==
    appState = "ERROR"
        => /\ caught = Upstream => errorMessage = Upstream
           /\ errorMessage = ErrorText => caught # Upstream

\* C17: a missing credential is found at startup, before any capture is
\* accepted: in no run is a capture accepted, the state set to Processing and
\* the extraction then failed for the lack of the credential.
C17_MissingKeyFailsFast ==
    ~(\E r \in 1..MaxCaptures :
         /\ stage[r] = "threwEarly"
         /\ caught = NoKeyText
         /\ appState = "ERROR")

\* What JSON.parse is given for the response text.
Located == JsonParse(Isolate(StripFences(rawText)))

\* Every field of candidate c has a value.
WellFormed(c) == DOMAIN c = FieldNames /\ \A fn \in FieldNames : c[fn] # Undefined

\* C18: once a JSON value has been located in the text and parsed, whatever
\* its elements are, normalize does not throw and returns no null or
\* undefined candidate; it fails only when no JSON can be located.
C18_NeverThrowsOnceParsed ==
    (result.status # "pending" /\ rawText # <<>>)
        => /\ Located # Failed
                => /\ result.status = "ok"
                   /\ \A j \in 1..Len(result.list) : WellFormed(result.list[j])
           /\ result.status # "ok" => Located = Failed

\* The stripped text has neither a '[' ... ']' pair nor a '{' ... '}' pair.
NoPair(t) ==
    /\ FirstOf(Expand(t), {"["}) = -1 \/ LastOf(Expand(t), {"]"}) = -1
    /\ FirstOf(Expand(t), {"O", "E", "{"}) = -1

\* No JSON object or array can be recovered from the response text.
Unrecoverable ==
    /\ rawText # <<>>
    /\ NoPair(StripFences(rawText)) \/ Located = Failed

\* C19: for a text from which no JSON object or array can be recovered,
\* normalize fails with the MalformedResponse error and returns no list,
\* empty or synthesized.
C19_UnrecoverableIsMalformed ==
    (result.status # "pending" /\ Unrecoverable) => result.status = ParseText

\* t is a JSON array whose elements are event objects.
IsEventArray(t) ==
    /\ Len(t) >= 2
    /\ JsonParse(t).k = "array"
    /\ \A j \in 1..Len(JsonParse(t).items) : JsonParse(t).items[j].k = "object"

\* The candidate expected for an event object, by its token.
ExpectedCandidate(tok) ==
    IF tok = "O"
    THEN [title |-> "Standup", location |-> "", description |-> "",
          startDateTime |-> "2025-06-02T09:00:00", endDateTime |-> "", recurrence |-> ""]
    ELSE IF tok = "B"
    THEN [title |-> "[Webinar] Launch", location |-> "", description |-> "",
          startDateTime |-> "", endDateTime |-> "", recurrence |-> ""]
    ELSE [title |-> "Untitled Event", location |-> "", description |-> "",
          startDateTime |-> "", endDateTime |-> "", recurrence |-> ""]

\* One candidate per element of the event array t, in its order: the
\* elements are the tokens at the even positions.
ExpectedList(t) ==
    [j \in 1..Len(JsonParse(t).items) |-> ExpectedCandidate(t[2 * j])]

\* The tokens of the response text outside positions i..j.
Around(i, j) == {rawText[k] : k \in (1..Len(rawText)) \ (i..j)}

\* C20 as stated: for a text that holds a valid JSON array of event objects,
\* in fences or not, with any text before and after it, normalize returns one
\* candidate per element, in order, with the defaults applied.
C20_ArrayInAnyProse ==
    result.status # "pending"
        => \A i, j \in 1..Len(rawText) :
              IsEventArray(SubSeq(rawText, i, j))
                  => result = [status |-> "ok",
                               list |-> ExpectedList(SubSeq(rawText, i, j))]

\* C20 as amended: the same, for text before and after the array (fences
\* included) that holds no square bracket ("B" holds two).
C20_ArrayInBracketFreeProse ==
    result.status # "pending"
        => \A i, j \in 1..Len(rawText) :
              (/\ IsEventArray(SubSeq(rawText, i, j))
               /\ Around(i, j) \cap {"[", "]", "B"} = {})
                  => result = [status |-> "ok",
                               list |-> ExpectedList(SubSeq(rawText, i, j))]

\* A fenced array of one object has been normalised into one candidate.
C20_Witness ==
    /\ rawText = <<"F", "[", "E", "]", "f">>
    /\ result.status = "ok"
    /\ Len(result.list) = 1
    /\ result.list[1].title = "Untitled Event"

\* The response text is the object at position k with prose and fences
\* around it.
SingleObject(k) ==
    /\ rawText[k] \in {"O", "E", "B"}
    /\ \A j \in (1..Len(rawText)) \ {k} : rawText[j] \in {"p", "F", "f"}

MappedFrom(item) ==
    [fn \in FieldNames |->
        IF item.f[fn] = Undefined \/ item.f[fn] = ""
        THEN (IF fn = "title" THEN "Untitled Event" ELSE "")
        ELSE item.f[fn]]

\* C22: for every parsed array the result has the length and the order of
\* the array, and each candidate has exactly the six fields, with the
\* defaults for absent and falsy values and every truthy value unchanged.
C22_ArrayMappedInOrder ==
    (result.status # "pending" /\ rawText # <<>> /\ Located.k = "array")
        => /\ result.status = "ok"
           /\ Len(result.list) = Len(Located.items)
           /\ \A j \in 1..Len(result.list) :
                 /\ DOMAIN result.list[j] = FieldNames
                 /\ result.list[j] = MappedFrom(Located.items[j])

\* C23: direct mode and relay mode are interchangeable: for every response
\* text both give the same candidates, or both fail.
C23_ModesInterchangeable ==
    (result.status # "pending" /\ relayed.status # "pending")
        => /\ result.status = "ok" <=> relayed.status = "ok"
           /\ result.status = "ok" => result.list = relayed.list

\* An array of two objects has gone through both modes and has given two
\* candidates in each.
C23_Witness ==
    /\ rawText = <<"[", "O", ",", "E", "]">>
    /\ result.status = "ok"
    /\ relayed.status = "ok"
    /\ Len(relayed.list) = 2

\* C24: the link of a candidate with a recurrence rule has a recurrence
\* parameter whose value is the rule; the link of a candidate without
\* recurrence has none.
C24_RecurrenceInLink ==
    link.status # "pending"
        => /\ link.status = "ok"
           /\ IF event.recurrence = ""
              THEN "recur" \notin DOMAIN link.params
              ELSE /\ "recur" \in DOMAIN link.params
                   /\ link.params["recur"] = event.recurrence

\* The candidate has a start that parses and no end that does.
EndUnset ==
    /\ DateParse(event.startDateTime, tz).valid
    /\ ~DateParse(event.endDateTime, tz).valid

\* Hours and the rest of the hour of a stamp of our days.
HourOf(stamp) == stamp.d * 24 + (stamp.ms \div HourMs)
RestOf(stamp) == stamp.ms % HourMs

\* C25: for a candidate with a valid start and an unset end, the dates
\* parameter holds the stamp of the start and the stamp of the instant 3600
\* seconds later.
C25_DefaultEndOneHourLater ==
    (link.status # "pending" /\ EndUnset)
        => /\ link.status = "ok"
           /\ "dates" \in DOMAIN link.params
           /\ link.params["dates"].start = formatToGCalDate(event.startDateTime, tz)
           /\ link.params["dates"].end.form = "stamp"
           /\ HourOf(link.params["dates"].end) = HourOf(link.params["dates"].start) + 1
           /\ RestOf(link.params["dates"].end) = RestOf(link.params["dates"].start)

\* C26: encode never fails; the link carries text, details and location,
\* and dates exactly when a start stamp and an end stamp are available, as
\* given.
C26_EncodeTotal ==
    link.status # "pending"
        => /\ link.status = "ok"
           /\ link.params["text"] = (IF event.title = "" THEN "New Event" ELSE event.title)
           /\ link.params["details"] = event.description
           /\ link.params["location"] = event.location
           /\ "dates" \in DOMAIN link.params <=> DateParse(event.startDateTime, tz).valid
           /\ (DateParse(event.startDateTime, tz).valid
                   /\ DateParse(event.endDateTime, tz).valid)
                  => link.params["dates"] =
                         [start |-> formatToGCalDate(event.startDateTime, tz),
                          end |-> formatToGCalDate(event.endDateTime, tz)]

\* C27: every rule composed for a candidate is FREQ=<UNIT>;INTERVAL=<N> with
\* a unit of the four and 1 <= N <= 999, whatever interval was typed or
\* extracted.
C27_ComposedRuleClamped ==
    (form.mounted /\ form.recurrence # <<>>)
        => /\ Len(form.recurrence) = 2
           /\ form.recurrence[1].key = "FREQ"
           /\ form.recurrence[1].word \in Units
           /\ form.recurrence[2].key = "INTERVAL"
           /\ form.recurrence[2].digits # <<>>
           /\ ParseInt(form.recurrence[2].digits) \in 1..999

\* C28: a rule composed from a unit of the four and an interval of 1..999
\* decomposes into that unit and that interval, whatever the values before,
\* and the rule of WEEKLY and 2 is 'RRULE:FREQ=WEEKLY;INTERVAL=2'.
C28_RuleRoundTrip ==
    (form.mounted /\ form.enabled /\ form.interval \in 1..999)
        => /\ \A u \in Units :
                 parseRule(form.recurrence, [unit |-> u, interval |-> 1]) =
                     [unit |-> form.unit, interval |-> form.interval]
           /\ (form.unit = "WEEKLY" /\ form.interval = 2)
                  => form.recurrence = <<Part("FREQ", "WEEKLY", <<>>),
                                         Part("INTERVAL", "", <<2>>)>>

\* The form shows the rule of MONTHLY and 999.
C28_Witness ==
    /\ form.mounted
    /\ form.enabled
    /\ form.unit = "MONTHLY"
    /\ form.interval = 999
    /\ form.recurrence # <<>>

\* The rule has a unit, an interval, that the parse effect can read.
HasUnit(rule) == \E k \in 1..Len(rule) : rule[k].key = "FREQ" /\ rule[k].word \in Units
HasInterval(rule) == \E k \in 1..Len(rule) : rule[k].key = "INTERVAL" /\ rule[k].digits # <<>>

\* C29: decomposing a rule that is present leaves the unit as it was (WEEKLY
\* in a new form) when the rule has no readable unit, and the interval as it
\* was (1 in a new form) when it has no readable interval; a form not yet
\* mounted holds WEEKLY and 1.
C29_UnparseableKeepsValues ==
    /\ [](~form.mounted => form.unit = "WEEKLY" /\ form.interval = 1)
    /\ [][((~form.mounted \/ form'.initial # form.initial) /\ form'.initial # <<>>)
              => /\ form'.mounted
                 /\ ~HasUnit(form'.initial) => form'.unit = form.unit
                 /\ ~HasInterval(form'.initial) => form'.interval = form.interval
                 /\ HasUnit(form'.initial) => form'.unit \in Units]_vars

\* A form mounted on 'every week' shows the defaults.
C29_Witness ==
    /\ form.mounted
    /\ form.initial = <<Part("every week", "", <<>>)>>
    /\ form.enabled
    /\ form.unit = "WEEKLY"
    /\ form.interval = 1

\* The functions applied so far, in order.
Ops == [k \in 1..Len(trip) |-> trip[k].op]

\* C30: for every string that parses, for every viewer, the local rendering
\* is a value, and rendering what is read back from it gives it again.
C30_LocalRenderingStable ==
    (trip # <<>> /\ trip[1].op = "toInput" /\ DateParse(given, tz).valid)
        => /\ trip[1].status = "ok"
           /\ trip[1].value # Empty
           /\ Ops = <<"toInput", "fromInput", "toInput">>
                  => /\ trip[3].status = "ok"
                     /\ trip[3].value = trip[1].value

\* C31: a value of the date and time input or of the date input, read by
\* fromInputDateTime and rendered by toInputDateTime, shows the local date of
\* the value, and its time too for the date and time input, for every viewer.
C31_ReadAsLocalTime ==
    (/\ Len(trip) >= 2
     /\ trip[1].op = "fromInput"
     /\ trip[2].op = "toInput"
     /\ given.form \in {"dateTime", "date"}
     /\ given.ms % MinuteMs = 0)
        => /\ trip[2].status = "ok"
           /\ trip[2].value.form = "dateTime"
           /\ trip[2].value.d = given.d
           /\ given.form = "dateTime" => trip[2].value.ms = given.ms

\* The string the k-th function of the trip was applied to.
ArgumentOf(k) == IF k = 1 THEN given ELSE trip[k - 1].value

\* C32: none of the three functions throws; each returns '' for '' and for
\* a string that does not parse, and a string other than '' for one that does.
C32_CodecNeverThrows ==
    \A k \in 1..Len(trip) :
        /\ trip[k].status = "ok"
        /\ trip[k].value = Empty <=> ~DateParse(ArgumentOf(k), tz).valid

\* The step is a commit or a discard: a link was opened or
\* dismissCurrentCard was called.
CommitOrDiscard == opened' # NoData \/ dismissed' # "none"

\* The step is the completion of an extraction that starts a Review.
StartsReview ==
    /\ inflight' # inflight
    /\ appState' = "REVIEW"
    /\ stackOrder' = Identity(Len(events'))

\* C33: commit and discard leave the candidate array, the state, the
\* message and the preview as they are and change the queue at most by
\* removing its front; the array is replaced only by reset and by an
\* extraction result that starts a Review.
C33_ArrayFixedInReview ==
    [][/\ CommitOrDiscard
              => /\ UNCHANGED <<events, appState, errorMessage, previewImage>>
                 /\ stackOrder' \in {stackOrder, Shift(stackOrder)}
       /\ events' # events
              => \/ appState' = "IDLE" /\ events' = <<>>
                 \/ StartsReview]_vars

\* The front candidate of a batch of two has just been discarded: the queue
\* holds index 1 and the array still holds both candidates at their indices.
C33_Witness ==
    /\ appState = "REVIEW"
    /\ dismissed = "button"
    /\ stackOrder = <<1>>
    /\ Len(events) = 2
    /\ events = Batch(events[1].img, 2)

\* C34: every index that has left the queue is one on which the user issued
\* commit or discard while it was at the front; no commit-delay timer
\* removes a candidate the user has not reviewed.
C34_NoneLeavesUnreviewed == ~skipped

\* C35: outside Review the candidate array and the queue are empty.
C35_EmptyOutsideReview ==
    appState \in {"IDLE", "PROCESSING", "ERROR"}
        => events = <<>> /\ stackOrder = <<>>

\* C36: the error message is non-empty exactly in the Error state.
C36_MessageIffError == errorMessage # "" <=> appState = "ERROR"

\* C37: in Review the preview held is the image whose extraction produced
\* the candidates, and that image is the most recent capture.
C37_PreviewOfCandidates ==
    appState = "REVIEW"
        => /\ previewImage = nextId - 1
           /\ \A k \in 1..Len(events) : events[k].img = previewImage

\* C38: a form the user has not touched holds the extracted rule: after the
\* first render and its effects, the recurrence of the form data, from which
\* the deep link is built, is the rule the candidate was extracted with.
C38_UneditedKeepsRule ==
    [][(~form.mounted /\ form'.mounted) => form'.recurrence = form.initial]_vars

====
